---------------------------- MODULE Spec2Model ----------------------------
(***************************************************************************)
(* Payout scheduling and payment-history reconciliation of the pension     *)
(* tracking backend (app/admin_routes.py, app/pensioner_routes.py,         *)
(* app/utils.py, app/models.py).                                           *)
(*                                                                         *)
(* The four tables are sequences indexed by their autoincrement key.  One  *)
(* action is one HTTP request, from authentication to the response; the    *)
(* request-scoped database session is discarded when the request ends, so  *)
(* only what a request committed is visible afterwards.  Time is counted   *)
(* in ticks of half a day; a stored payout_date is the midnight of its     *)
(* day.  datetime.now() and datetime.utcnow() read the same clock (server  *)
(* in UTC).  Money is held in cents, request amounts in tenths of a cent.  *)
(*                                                                         *)
(* Spec handles the requests one at a time.  ConcSpec lets the requests    *)
(* that commit more than once, or check and then commit, overlap: each     *)
(* worker of the server is at a position between two database accesses of  *)
(* the handler it runs, and the other workers' requests come in between.   *)
(***************************************************************************)
EXTENDS Integers, Sequences, FiniteSets, TLC

VARIABLES pensioners, schedules, payments, notifications, now, resp, workers

vars == <<pensioners, schedules, payments, notifications, now, resp, workers>>

tables == <<schedules, payments, notifications>>

(***************************************************************************)
(* Bounds of the model.                                                    *)
(***************************************************************************)
MaxPensioners == 2
MaxSchedules == 1
MaxDays == 2
MaxTicks == 2
MaxWorkers == 2

(***************************************************************************)
(* JSON values of a request body: a tag and a payload.                     *)
(***************************************************************************)
Missing == [t |-> "missing", v |-> <<>>]
JNull == [t |-> "null", v |-> <<>>]
JStr(x) == [t |-> "str", v |-> x]
JNum(x) == [t |-> "num", v |-> x]

NULL == -1

TicksPerDay == 2

\* The calendar: tuples <<year, month, day>>.
DaysInMonth(y, m) ==
    IF m \in {4, 6, 9, 11} THEN 30
    ELSE IF m = 2 THEN (IF y % 4 = 0 /\ (y % 100 # 0 \/ y % 400 = 0) THEN 29 ELSE 28)
    ELSE 31

\* A monotone numbering of calendar days, and the tick of a day's midnight.
DayIndex(d) == ((d[1] - 2025) * 12 + (d[2] - 1)) * 31 + (d[3] - 1)
Midnight(d) == DayIndex(d) * TicksPerDay
DayOfTick(t) == t \div TicksPerDay

FirstDate == <<2025, 1, 10>>
StartTime == Midnight(FirstDate) - 1

(***************************************************************************)
(* Parsers.  Each returns [ok, err, val]: err is "ValueError" for a string *)
(* that does not match the format and "TypeError" for a non-string.        *)
(***************************************************************************)
Ok(x) == [ok |-> TRUE, err |-> "", val |-> x]
Raise(e) == [ok |-> FALSE, err |-> e, val |-> <<>>]

\* datetime.strptime(s, '%Y-%m-%d').date()
convert_to_date(j) ==
    IF j.t # "str" THEN Raise("TypeError")
    ELSE IF Len(j.v) = 3 /\ j.v[2] \in 1..12 /\ j.v[1] \in 1..9999
            /\ j.v[3] \in 1..DaysInMonth(j.v[1], j.v[2])
         THEN Ok(j.v)
         ELSE Raise("ValueError")

\* datetime.strptime(s, '%H:%M').time()
strptime_time(j) ==
    IF j.t # "str" THEN Raise("TypeError")
    ELSE IF Len(j.v) = 2 /\ j.v[1] \in 0..23 /\ j.v[2] \in 0..59
         THEN Ok(j.v)
         ELSE Raise("ValueError")

\* float(x) of a JSON value, in tenths of a cent; an unparseable string has
\* payload <<>>.
py_float(j) ==
    IF j.t = "num" THEN Ok(j.v[1])
    ELSE IF j.t = "str" THEN (IF Len(j.v) = 1 THEN Ok(j.v[1]) ELSE Raise("ValueError"))
    ELSE Raise("TypeError")

\* Numeric(10, 2): the value a pensioner's payout_amount reads back as, in cents.
ToNumeric(x) == (x + 5) \div 10

(***************************************************************************)
(* Request inputs: one representative of each way a field can be given.    *)
(***************************************************************************)
ValidDates == { <<2025, 1, 10 + i>> : i \in 0..(MaxDays - 1) }
DateInputs == { JStr(d) : d \in ValidDates }
                 \cup { JStr(<<2025, 2, 30>>), JNum(<<20250110>>), Missing }
StartTimeInputs == { JStr(<<9, 0>>), Missing }
EndTimeInputs == { JStr(<<12, 0>>), JStr(<<25, 0>>) }
LocationInputs == { JStr(<<"Town Hall">>), JNull }
AmountInputs == { JNum(<<0>>), JNum(<<1506>>), JStr(<<>>), JNull, Missing }
StatusInputs == { JStr(<<"pending">>), JStr(<<"approved">>), JStr(<<"rejected">>),
                  JStr(<<"deleted">>), Missing }
SeniorIds == 1..MaxPensioners

\* A well-formed body for every valid date, and the bodies with one field
\* wrong.
Defects(data) ==
    { f \in {"payout_date", "start_time", "end_time", "payout_location"} :
        \/ f = "payout_date" /\ data[f] \notin { JStr(d) : d \in ValidDates }
        \/ f = "start_time" /\ data[f] # JStr(<<9, 0>>)
        \/ f = "end_time" /\ data[f] # JStr(<<12, 0>>)
        \/ f = "payout_location" /\ data[f] = JNull }

ScheduleBodies ==
    { data \in [payout_date : DateInputs, payout_location : LocationInputs,
                start_time : StartTimeInputs, end_time : EndTimeInputs] :
        Cardinality(Defects(data)) <= 1 }

\* The Admin table: one administrator, id 1.
AdminIds == {1}

\* Who sends the request: no credentials, or a JWT issued by either login
\* route, whose subject is the id of the row it was issued for.
NoOne == [kind |-> "none", id |-> 0]
AdminTokens == { [kind |-> "admin", id |-> i] : i \in AdminIds }
PensionerTokens == { [kind |-> "pensioner", id |-> i] : i \in 1..MaxPensioners }
Principals == {NoOne} \cup AdminTokens \cup PensionerTokens

\* The callers of the admin routes: a pensioner's token whose subject is no
\* administrator's id is turned away like no credentials at all.
AdminCallers == {NoOne} \cup AdminTokens
                   \cup { pr \in PensionerTokens : pr.id \in AdminIds }

\* Where a persistence error is injected into a request ("none": nowhere).
ReconcileFaults == {"none", "reconcile_query", "reconcile_commit"}
CreateFaults == {"none", "schedule_commit", "fanout_commit"}

(***************************************************************************)
(* Authentication.                                                         *)
(***************************************************************************)
\* admin_routes.verify_password: the token's subject is looked up in the
\* Admin table whatever route issued it; g.user.user_type is then 'admin'.
admin_verify_password(pr) ==
    IF pr.kind # "none" /\ pr.id \in AdminIds
    THEN [ok |-> TRUE, id |-> pr.id, user_type |-> "admin"]
    ELSE [ok |-> FALSE, id |-> 0, user_type |-> ""]

\* pensioner_routes.verify_password: the same against the Pensioner table.
pensioner_verify_password(pr) ==
    IF pr.kind # "none" /\ pr.id \in DOMAIN pensioners
    THEN [ok |-> TRUE, id |-> pr.id, user_type |-> "pensioner"]
    ELSE [ok |-> FALSE, id |-> 0, user_type |-> ""]

(***************************************************************************)
(* Responses: the route, the kind of credentials the request came with,    *)
(* the HTTP status, the reconciliation pass the request ran (rec) and the  *)
(* rows of the JSON body.                                                  *)
(***************************************************************************)
NoRec == [ran |-> FALSE, failed |-> FALSE, committed |-> FALSE, updated |-> {}]

Response(op, pr, code, rec, body) ==
    [op |-> op, who |-> pr.kind, code |-> code, rec |-> rec, body |-> body]

\* The workers of the server, and a worker that handles no request.
Workers == 1..MaxWorkers
Idle == [op |-> "idle"]

Init ==
    /\ workers = [w \in Workers |-> Idle]
    /\ pensioners = <<>>
    /\ schedules = <<>>
    /\ payments = <<>>
    /\ notifications = <<>>
    /\ now = StartTime
    /\ resp = Response("", NoOne, 0, NoRec, {})

\* The wall clock advances.
Tick ==
    /\ now < StartTime + MaxTicks
    /\ now' = now + 1
    /\ UNCHANGED <<pensioners, schedules, payments, notifications, resp, workers>>

(***************************************************************************)
(* POST /api/pensioner/register                                            *)
(***************************************************************************)
RegisterBodies ==
    [senior_citizen_id : { JStr(<<i>>) : i \in SeniorIds } \cup {Missing},
     birthdate : {JStr(<<1950, 2, 30>>), Missing}]

\* `field not in data or not data[field]`
Absent(j) == j = Missing \/ j = JNull \/ j = JStr(<<>>)

register_pensioner(data) ==
    LET existing == { i \in DOMAIN pensioners :
                         pensioners[i].senior_citizen_id = data.senior_citizen_id.v[1] }
        birthdate == convert_to_date(data.birthdate)
        new_pensioner == [senior_citizen_id |-> data.senior_citizen_id.v[1],
                          status |-> "pending", payout_amount |-> NULL]
        reply(code) == /\ resp' = Response("register_pensioner", NoOne, code, NoRec, {})
                       /\ UNCHANGED <<pensioners, schedules, payments, notifications,
                                      now>>
    IN  IF Absent(data.senior_citizen_id) THEN reply(400)
        ELSE IF existing # {} THEN reply(409)
        ELSE IF ~Absent(data.birthdate) /\ ~birthdate.ok
          THEN (IF birthdate.err = "ValueError" THEN reply(400) ELSE reply(500))
        ELSE /\ pensioners' = Append(pensioners, new_pensioner)
             /\ resp' = Response("register_pensioner", NoOne, 201, NoRec, {})
             /\ UNCHANGED <<schedules, payments, notifications, now>>

\* Senior citizen ids are interchangeable: a request brings a registered id
\* or the first unused one.
Register ==
    \E data \in RegisterBodies :
        /\ Len(pensioners) < MaxPensioners
        /\ data.senior_citizen_id # Missing => data.senior_citizen_id.v[1] <= Len(pensioners) + 1
        /\ register_pensioner(data)
        /\ UNCHANGED workers

(***************************************************************************)
(* PUT /api/admin/pensioners/<id>/status                                   *)
(***************************************************************************)
\* Every amount with status approved; with another status the amount is not
\* read, and one present and one absent amount stand for all.
StatusBodies ==
    { data \in [status : StatusInputs, payout_amount : AmountInputs] :
        /\ data.status # JStr(<<"approved">>) => data.payout_amount \in {Missing, JNum(<<1506>>)}
        /\ data.status = Missing => data.payout_amount = Missing }

\* update_pensioner_status without the check of the status value.
update_pensioner_status_any_status(pr, pensioner_id, data) ==
    LET user == admin_verify_password(pr)
        reply(code) == /\ resp' = Response("update_pensioner_status", pr, code, NoRec, {})
                       /\ UNCHANGED <<pensioners, schedules, payments, notifications,
                                      now>>
    IN  IF ~user.ok THEN reply(401)
        ELSE IF pensioner_id \notin DOMAIN pensioners THEN reply(404)
        ELSE IF data.status = Missing THEN reply(400)
        ELSE /\ pensioners' = [pensioners EXCEPT ![pensioner_id].status = data.status.v[1]]
             /\ resp' = Response("update_pensioner_status", pr, 200, NoRec, {})
             /\ UNCHANGED <<schedules, payments, notifications, now>>

update_pensioner_status(pr, pensioner_id, data) ==
    LET user == admin_verify_password(pr)
        amount == py_float(data.payout_amount)
        with_amount == data.status.v[1] = "approved" /\ data.payout_amount # Missing
        reply(code) == /\ resp' = Response("update_pensioner_status", pr, code, NoRec, {})
                       /\ UNCHANGED <<pensioners, schedules, payments, notifications,
                                      now>>
    IN  IF ~user.ok THEN reply(401)
        ELSE IF user.user_type # "admin" THEN reply(403)
        ELSE IF pensioner_id \notin DOMAIN pensioners THEN reply(404)
        ELSE IF data.status = Missing THEN reply(400)
        ELSE IF data.status.v[1] \notin {"pending", "approved", "rejected"} THEN reply(400)
        ELSE IF with_amount /\ ~amount.ok
          THEN (IF amount.err = "ValueError" THEN reply(400) ELSE reply(500))
        ELSE /\ pensioners' = [pensioners EXCEPT ![pensioner_id] =
                    [@ EXCEPT !.status = data.status.v[1],
                              !.payout_amount = IF with_amount THEN ToNumeric(amount.val)
                                                ELSE @]]
             /\ resp' = Response("update_pensioner_status", pr, 200, NoRec, {})
             /\ UNCHANGED <<schedules, payments, notifications, now>>

UpdateStatus ==
    \E pr \in {NoOne} \cup AdminTokens, pensioner_id \in 1..MaxPensioners,
       data \in StatusBodies :
        \* without credentials the answer is 401 whatever is asked
        /\ pr = NoOne => pensioner_id = 1 /\ data.status = Missing
        /\ update_pensioner_status(pr, pensioner_id, data)
        /\ UNCHANGED workers

(***************************************************************************)
(* PUT /api/admin/pensioners/<id>/payout                                   *)
(***************************************************************************)
update_pensioner_payout(pr, pensioner_id, payout_amount) ==
    LET user == admin_verify_password(pr)
        amount == py_float(payout_amount)
        reply(code) == /\ resp' = Response("update_pensioner_payout", pr, code, NoRec, {})
                       /\ UNCHANGED <<pensioners, schedules, payments, notifications,
                                      now>>
    IN  IF ~user.ok THEN reply(401)
        ELSE IF user.user_type # "admin" THEN reply(403)
        ELSE IF pensioner_id \notin DOMAIN pensioners THEN reply(404)
        ELSE IF payout_amount = Missing THEN reply(400)
        ELSE IF ~amount.ok
          THEN (IF amount.err = "ValueError" THEN reply(400) ELSE reply(500))
        ELSE /\ pensioners' = [pensioners EXCEPT ![pensioner_id].payout_amount =
                                   ToNumeric(amount.val)]
             /\ resp' = Response("update_pensioner_payout", pr, 200, NoRec, {})
             /\ UNCHANGED <<schedules, payments, notifications, now>>

UpdatePayout ==
    \E pr \in {NoOne} \cup AdminTokens, pensioner_id \in 1..MaxPensioners,
       payout_amount \in AmountInputs :
        /\ pr = NoOne => pensioner_id = 1 /\ payout_amount = Missing
        /\ update_pensioner_payout(pr, pensioner_id, payout_amount)
        /\ UNCHANGED workers

(***************************************************************************)
(* utils.update_released_payout                                            *)
(***************************************************************************)
\* released_payout with the comparison widened to <=.
released_payout_le(current_time) ==
    { i \in DOMAIN schedules : schedules[i].payout_date <= current_time }

\* SchedulePayout.query.filter(SchedulePayout.payout_date < current_time)
released_payout(current_time) ==
    { i \in DOMAIN schedules : schedules[i].payout_date < current_time }

\* update_released_payout without its db.session.commit(): the statuses are
\* set on the session's objects and lost with the session.
update_released_payout_nocommit(fault) ==
    [schedules |-> schedules, raised |-> FALSE,
     rec |-> [ran |-> TRUE, failed |-> fault = "reconcile_query", committed |-> FALSE,
              updated |-> {}]]

\* update_released_payout without its try/except: the error leaves the function.
update_released_payout_nocatch(fault) ==
    LET found == released_payout(now)
        failing == fault = "reconcile_query" \/ (fault = "reconcile_commit" /\ found # {})
    IN  [schedules |-> IF failing THEN schedules
                       ELSE [i \in DOMAIN schedules |->
                               IF i \in found THEN [schedules[i] EXCEPT !.status = "released"]
                               ELSE schedules[i]],
         raised |-> failing,
         rec |-> [ran |-> TRUE, failed |-> failing, committed |-> ~failing /\ found # {},
                  updated |-> IF failing THEN {}
                              ELSE { i \in found : schedules[i].status # "released" }]]

\* The pass: the rows it leaves persisted; whether an error was caught
\* (failed); whether db.session.commit() was called and succeeded (committed);
\* the rows whose status the commit changed (updated: assigning a column the
\* value it holds flushes no UPDATE); whether an exception left the function
\* (raised).
update_released_payout(fault) ==
    LET current_time == now
        found == released_payout(current_time)
        marked == [i \in DOMAIN schedules |->
                      IF i \in found THEN [schedules[i] EXCEPT !.status = "released"]
                      ELSE schedules[i]]
    IN  IF fault = "reconcile_query" \/ (fault = "reconcile_commit" /\ found # {})
        THEN [schedules |-> schedules, raised |-> FALSE,
              rec |-> [ran |-> TRUE, failed |-> TRUE, committed |-> FALSE, updated |-> {}]]
        ELSE [schedules |-> marked, raised |-> FALSE,
              rec |-> [ran |-> TRUE, failed |-> FALSE, committed |-> found # {},
                       updated |-> { i \in found : schedules[i].status # "released" }]]

(***************************************************************************)
(* POST /api/admin/schedule-payout                                         *)
(***************************************************************************)
\* approved_pensioners filtering out the rejected pensioners only.
approved_pensioners_not_rejected ==
    { i \in DOMAIN pensioners : pensioners[i].status # "rejected" }

\* Pensioner.query.filter_by(status='approved').all()
approved_pensioners ==
    { i \in DOMAIN pensioners : pensioners[i].status = "approved" }

\* new_payment passing the pensioner's status on as the row's status.
new_payment_pensioner_status(pensioner_id, schedule_id) ==
    [pensioner_id |-> pensioner_id, schedule_id |-> schedule_id,
     payout_amount |-> pensioners[pensioner_id].payout_amount,
     status |-> pensioners[pensioner_id].status]

\* PaymentHistory(pensioner_id, schedule_id, payout_amount); status defaults
\* to 'scheduled'.
new_payment(pensioner_id, schedule_id) ==
    [pensioner_id |-> pensioner_id, schedule_id |-> schedule_id,
     payout_amount |-> pensioners[pensioner_id].payout_amount, status |-> "scheduled"]

\* Notification(pensioner_id, message, location, time, date=payout_date)
new_notification(pensioner_id, payout_date) ==
    [pensioner_id |-> pensioner_id, date |-> payout_date]

\* A set of pensioner ids as a sequence in ascending order.
RECURSIVE InOrder(_)
InOrder(S) ==
    IF S = {} THEN <<>>
    ELSE LET m == CHOOSE x \in S : \A y \in S : x <= y
         IN  <<m>> \o InOrder(S \ {m})

\* fan_out_payments with db.session.add(payment) reached twice in each turn of
\* the loop, with a fresh PaymentHistory each time.
fan_out_payments_twice(schedule_id) ==
    LET ids == InOrder(approved_pensioners)
    IN  [k \in 1..(2 * Len(ids)) |-> new_payment(ids[(k + 1) \div 2], schedule_id)]

\* The rows the loop over approved_pensioners adds to the session.
fan_out_payments(schedule_id) ==
    LET ids == InOrder(approved_pensioners)
    IN  [k \in 1..Len(ids) |-> new_payment(ids[k], schedule_id)]

\* fan_out_notifications with the notification built after the loop, for the
\* last pensioner only.
fan_out_notifications_once(payout_date) ==
    LET ids == InOrder(approved_pensioners)
    IN  IF ids = <<>> THEN <<>> ELSE <<[pensioner_id |-> ids[Len(ids)], date |-> payout_date]>>

fan_out_notifications(payout_date) ==
    LET ids == InOrder(approved_pensioners)
    IN  [k \in 1..Len(ids) |-> new_notification(ids[k], payout_date)]

\* payment_history.payout_amount is NOT NULL: the flush of such a row fails.
violates_not_null(rows) == \E k \in DOMAIN rows : rows[k].payout_amount = NULL

create_schedule_payout(pr, data, fault) ==
    LET user == admin_verify_password(pr)
        payout_date == convert_to_date(data.payout_date)
        start_time == strptime_time(data.start_time)
        end_time == strptime_time(data.end_time)
        first_error == IF ~payout_date.ok THEN payout_date.err
                       ELSE IF ~start_time.ok THEN start_time.err
                       ELSE IF ~end_time.ok THEN end_time.err
                       ELSE ""
        schedule_id == Len(schedules) + 1
        schedule == [payout_date |-> Midnight(payout_date.val), status |-> "scheduled"]
        new_payments == fan_out_payments(schedule_id)
        new_notifications == fan_out_notifications(schedule.payout_date)
        reply(code) == /\ resp' = Response("create_schedule_payout", pr, code, NoRec, {})
                       /\ UNCHANGED <<pensioners, schedules, payments, notifications,
                                      now>>
    IN  IF ~user.ok THEN reply(401)
        ELSE IF user.user_type # "admin" THEN reply(403)
        ELSE IF \E f \in DOMAIN data : data[f] = Missing THEN reply(400)
        ELSE IF first_error = "ValueError" THEN reply(400)
        ELSE IF first_error = "TypeError" THEN reply(500)
        \* db.session.add(schedule); db.session.commit()
        ELSE IF data.payout_location = JNull \/ fault = "schedule_commit" THEN reply(500)
        \* the fan-out and its commit
        ELSE IF violates_not_null(new_payments) \/ fault = "fanout_commit"
          THEN /\ schedules' = Append(schedules, schedule)
               /\ resp' = Response("create_schedule_payout", pr, 500, NoRec, {})
               /\ UNCHANGED <<pensioners, payments, notifications, now>>
        ELSE /\ schedules' = Append(schedules, schedule)
             /\ payments' = payments \o new_payments
             /\ notifications' = notifications \o new_notifications
             /\ resp' = Response("create_schedule_payout", pr, 201, NoRec,
                                 {[schedule_id |-> schedule_id]})
             /\ UNCHANGED <<pensioners, now>>

CreateSchedule ==
    \E pr \in AdminCallers, data \in ScheduleBodies, fault \in CreateFaults :
        /\ Len(schedules) < MaxSchedules
        \* an error is injected only into a request that reaches a commit
        /\ fault # "none" => admin_verify_password(pr).ok /\ Defects(data) = {}
        /\ pr = NoOne => Defects(data) = {}
        \* and into the fan-out only when it has a row to insert
        /\ fault = "fanout_commit" => \E i \in DOMAIN pensioners : pensioners[i].status = "approved"
        /\ create_schedule_payout(pr, data, fault)
        /\ UNCHANGED workers

(***************************************************************************)
(* GET /api/admin/schedule-payout and GET /api/admin/system-alert          *)
(***************************************************************************)
schedule_rows(all, ids) ==
    { [schedule_id |-> i, status |-> all[i].status] : i \in ids }

\* get_schedule_payouts with the rows read before the pass instead of after.
get_schedule_payouts_report_first(pr, fault) ==
    LET user == admin_verify_password(pr)
        pass == update_released_payout(fault)
        body == schedule_rows(schedules, DOMAIN schedules)
    IN  IF ~user.ok
        THEN /\ resp' = Response("get_schedule_payouts", pr, 401, NoRec, {})
             /\ UNCHANGED <<pensioners, schedules, payments, notifications, now>>
        ELSE /\ schedules' = pass.schedules
             /\ resp' = Response("get_schedule_payouts", pr, 200, pass.rec, body)
             /\ UNCHANGED <<pensioners, payments, notifications, now>>

get_schedule_payouts(pr, fault) ==
    LET user == admin_verify_password(pr)
        pass == update_released_payout(fault)
        body == schedule_rows(pass.schedules, DOMAIN pass.schedules)
    IN  IF ~user.ok
        THEN /\ resp' = Response("get_schedule_payouts", pr, 401, NoRec, {})
             /\ UNCHANGED <<pensioners, schedules, payments, notifications, now>>
        ELSE /\ schedules' = pass.schedules
             /\ resp' = IF pass.raised
                          THEN Response("get_schedule_payouts", pr, 500, pass.rec, {})
                        ELSE IF user.user_type # "admin"
                          THEN Response("get_schedule_payouts", pr, 403, pass.rec, {})
                        ELSE Response("get_schedule_payouts", pr, 200, pass.rec, body)
             /\ UNCHANGED <<pensioners, payments, notifications, now>>

GetSchedulePayouts ==
    \E pr \in AdminCallers, fault \in ReconcileFaults :
        /\ pr = NoOne => fault = "none"
        /\ get_schedule_payouts(pr, fault)
        /\ UNCHANGED workers

system_alert(pr, fault) ==
    LET user == admin_verify_password(pr)
        pass == update_released_payout(fault)
        scheduled == { i \in DOMAIN pass.schedules : pass.schedules[i].status = "scheduled" }
        body == schedule_rows(pass.schedules, scheduled)
    IN  IF ~user.ok
        THEN /\ resp' = Response("system_alert", pr, 401, NoRec, {})
             /\ UNCHANGED <<pensioners, schedules, payments, notifications, now>>
        ELSE /\ schedules' = pass.schedules
             /\ resp' = IF pass.raised
                          THEN Response("system_alert", pr, 500, pass.rec, {})
                        ELSE IF user.user_type # "admin"
                          THEN Response("system_alert", pr, 403, pass.rec, {})
                        ELSE Response("system_alert", pr, 200, pass.rec, body)
             /\ UNCHANGED <<pensioners, payments, notifications, now>>

SystemAlert ==
    \E pr \in AdminCallers, fault \in ReconcileFaults :
        /\ pr = NoOne => fault = "none"
        /\ system_alert(pr, fault)
        /\ UNCHANGED workers

(***************************************************************************)
(* GET /api/pensioner/payments-history                                     *)
(***************************************************************************)
\* status = "scheduled" if payout_date > today else "released", on dates
derived_status(payout_date, current_time) ==
    IF DayOfTick(payout_date) > DayOfTick(current_time) THEN "scheduled" ELSE "released"

\* payment_row taking the amount from the pensioner's row, not the payment's.
payment_row_current(id, current_time) ==
    [id |-> id,
     schedule_id |-> payments[id].schedule_id,
     status |-> derived_status(schedules[payments[id].schedule_id].payout_date, current_time),
     payout_date |-> schedules[payments[id].schedule_id].payout_date,
     payout_amount |-> pensioners[payments[id].pensioner_id].payout_amount]

payment_row(id, current_time) ==
    [id |-> id,
     schedule_id |-> payments[id].schedule_id,
     status |-> derived_status(schedules[payments[id].schedule_id].payout_date, current_time),
     payout_date |-> schedules[payments[id].schedule_id].payout_date,
     payout_amount |-> payments[id].payout_amount]

get_payments(pr) ==
    LET user == pensioner_verify_password(pr)
        mine == { id \in DOMAIN payments : payments[id].pensioner_id = user.id }
        body == { payment_row(id, now) : id \in mine }
        reply(code, rows) ==
            /\ resp' = Response("get_payments", pr, code, NoRec, rows)
            /\ UNCHANGED <<pensioners, schedules, payments, notifications, now>>
    IN  IF ~user.ok THEN reply(401, {})
        ELSE IF user.user_type # "pensioner" THEN reply(403, {})
        ELSE IF user.id \notin DOMAIN pensioners THEN reply(404, {})
        ELSE reply(200, body)

GetPayments ==
    \E pr \in {NoOne} \cup PensionerTokens :
        /\ get_payments(pr)
        /\ UNCHANGED workers

Next ==
    \/ Tick
    \/ Register
    \/ UpdateStatus
    \/ UpdatePayout
    \/ CreateSchedule
    \/ GetSchedulePayouts
    \/ SystemAlert
    \/ GetPayments

Spec == Init /\ [][Next]_vars

(***************************************************************************)
(* Overlapping requests.  A handler that touches the database at several   *)
(* places is cut at those places; what a worker carries from one place to  *)
(* the next (its local variables and the rows added to its session) is in  *)
(* workers[w].  A request is taken by the first idle worker.               *)
(***************************************************************************)
Registering == { w \in Workers : workers[w].op = "register_pensioner" }

FirstIdle(w) == workers[w] = Idle /\ \A v \in Workers : workers[v] = Idle => w <= v

\* register_pensioner from the validation to the construction of
\* new_pensioner: the existence check reads the rows committed so far.
check_register_pensioner(w, data) ==
    LET existing == { i \in DOMAIN pensioners :
                         pensioners[i].senior_citizen_id = data.senior_citizen_id.v[1] }
        birthdate == convert_to_date(data.birthdate)
        new_pensioner == [senior_citizen_id |-> data.senior_citizen_id.v[1],
                          status |-> "pending", payout_amount |-> NULL]
        reply(code) == /\ resp' = Response("register_pensioner", NoOne, code, NoRec, {})
                       /\ UNCHANGED <<pensioners, schedules, payments, notifications,
                                      now, workers>>
    IN  IF Absent(data.senior_citizen_id) THEN reply(400)
        ELSE IF existing # {} THEN reply(409)
        ELSE IF ~Absent(data.birthdate) /\ ~birthdate.ok
          THEN (IF birthdate.err = "ValueError" THEN reply(400) ELSE reply(500))
        ELSE /\ workers' = [workers EXCEPT ![w] =
                    [op |-> "register_pensioner", new_pensioner |-> new_pensioner]]
             /\ UNCHANGED <<pensioners, schedules, payments, notifications, now, resp>>

\* commit_register_pensioner without the unique index on senior_citizen_id.
commit_register_pensioner_no_index(w) ==
    /\ pensioners' = Append(pensioners, workers[w].new_pensioner)
    /\ resp' = Response("register_pensioner", NoOne, 201, NoRec, {})
    /\ workers' = [workers EXCEPT ![w] = Idle]
    /\ UNCHANGED <<schedules, payments, notifications, now>>

\* db.session.add(new_pensioner); db.session.commit(): the unique index on
\* senior_citizen_id refuses a second row with the same value, and the
\* IntegrityError is caught, rolled back and answered 500.
commit_register_pensioner(w) ==
    LET new_pensioner == workers[w].new_pensioner
        duplicate == \E i \in DOMAIN pensioners :
                        pensioners[i].senior_citizen_id = new_pensioner.senior_citizen_id
    IN  /\ IF duplicate
           THEN /\ resp' = Response("register_pensioner", NoOne, 500, NoRec, {})
                /\ UNCHANGED pensioners
           ELSE /\ pensioners' = Append(pensioners, new_pensioner)
                /\ resp' = Response("register_pensioner", NoOne, 201, NoRec, {})
        /\ workers' = [workers EXCEPT ![w] = Idle]
        /\ UNCHANGED <<schedules, payments, notifications, now>>

\* The requests Spec turns away at once are left to Spec: here a
\* registration brings an id and no birthdate, and the other requests come
\* from an administrator with a well-formed body for a registered pensioner.
RegisterCheck ==
    \E w \in Workers, data \in RegisterBodies :
        /\ FirstIdle(w)
        /\ data.senior_citizen_id # Missing /\ data.birthdate = Missing
        /\ Len(pensioners) + Cardinality(Registering) < MaxPensioners
        /\ check_register_pensioner(w, data)

RegisterCommit == \E w \in Registering : commit_register_pensioner(w)

\* create_schedule_payout up to the commit of the SchedulePayout row.
\* approved_then notes, for the claims, who is approved and with which amount
\* at that commit; the handler never reads it.
begin_create_schedule_payout(w, pr, data) ==
    LET user == admin_verify_password(pr)
        payout_date == convert_to_date(data.payout_date)
        start_time == strptime_time(data.start_time)
        end_time == strptime_time(data.end_time)
        first_error == IF ~payout_date.ok THEN payout_date.err
                       ELSE IF ~start_time.ok THEN start_time.err
                       ELSE IF ~end_time.ok THEN end_time.err
                       ELSE ""
        schedule == [payout_date |-> Midnight(payout_date.val), status |-> "scheduled"]
        reply(code) == /\ resp' = Response("create_schedule_payout", pr, code, NoRec, {})
                       /\ UNCHANGED <<pensioners, schedules, payments, notifications,
                                      now, workers>>
    IN  IF ~user.ok THEN reply(401)
        ELSE IF user.user_type # "admin" THEN reply(403)
        ELSE IF \E f \in DOMAIN data : data[f] = Missing THEN reply(400)
        ELSE IF first_error = "ValueError" THEN reply(400)
        ELSE IF first_error = "TypeError" THEN reply(500)
        ELSE IF data.payout_location = JNull THEN reply(500)
        ELSE /\ schedules' = Append(schedules, schedule)
             /\ workers' = [workers EXCEPT ![w] =
                    [op |-> "create_schedule_payout", at |-> "query", pr |-> pr,
                     schedule_id |-> Len(schedules) + 1,
                     payout_date |-> schedule.payout_date,
                     approved_then |-> [p \in approved_pensioners |->
                                           pensioners[p].payout_amount]]]
             /\ UNCHANGED <<pensioners, payments, notifications, now, resp>>

\* The query of the approved pensioners, in the transaction that follows the
\* commit, and the loop that adds a payment and a notification for each.
query_create_schedule_payout(w) ==
    /\ workers' = [workers EXCEPT ![w] =
           [op |-> "create_schedule_payout", at |-> "commit", pr |-> workers[w].pr,
            schedule_id |-> workers[w].schedule_id,
            approved_then |-> workers[w].approved_then,
            payments |-> fan_out_payments(workers[w].schedule_id),
            notifications |-> fan_out_notifications(workers[w].payout_date)]]
    /\ UNCHANGED <<pensioners, schedules, payments, notifications, now, resp>>

\* The second db.session.commit() and the response.
commit_create_schedule_payout(w) ==
    /\ IF violates_not_null(workers[w].payments)
       THEN /\ resp' = Response("create_schedule_payout", workers[w].pr, 500, NoRec, {})
            /\ UNCHANGED <<payments, notifications>>
       ELSE /\ payments' = payments \o workers[w].payments
            /\ notifications' = notifications \o workers[w].notifications
            /\ resp' = Response("create_schedule_payout", workers[w].pr, 201, NoRec,
                                {[schedule_id |-> workers[w].schedule_id]})
    /\ workers' = [workers EXCEPT ![w] = Idle]
    /\ UNCHANGED <<pensioners, schedules, now>>

Creating(at) ==
    { w \in Workers : workers[w].op = "create_schedule_payout" /\ workers[w].at = at }

CreateBegin ==
    \E w \in Workers, pr \in AdminTokens, data \in ScheduleBodies :
        /\ FirstIdle(w)
        /\ Len(schedules) < MaxSchedules
        /\ Defects(data) = {}
        /\ begin_create_schedule_payout(w, pr, data)

CreateQuery == \E w \in Creating("query") : query_create_schedule_payout(w)

CreateCommit == \E w \in Creating("commit") : commit_create_schedule_payout(w)

\* update_pensioner_status and update_pensioner_payout read a row and commit
\* once: each is one step between the steps of the other workers.
StatusUpdate ==
    \E pr \in AdminTokens, pensioner_id \in DOMAIN pensioners, data \in StatusBodies :
        /\ data.status \in {JStr(<<"approved">>), JStr(<<"rejected">>)}
        /\ data.payout_amount \in {Missing, JNum(<<1506>>)}
        /\ update_pensioner_status(pr, pensioner_id, data)
        /\ UNCHANGED workers

PayoutUpdate ==
    \E pr \in AdminTokens, pensioner_id \in DOMAIN pensioners :
        /\ update_pensioner_payout(pr, pensioner_id, JNum(<<0>>))
        /\ UNCHANGED workers

ConcNext ==
    \/ RegisterCheck
    \/ RegisterCommit
    \/ StatusUpdate
    \/ PayoutUpdate
    \/ CreateBegin
    \/ CreateQuery
    \/ CreateCommit

ConcSpec == Init /\ [][ConcNext]_vars

(***************************************************************************)
(* The claims.  A step of a route is a step that answers on that route     *)
(* while the clock stands still (Tick alone moves the clock and leaves the *)
(* last response in place).                                                *)
(***************************************************************************)
Step(op) == now' = now /\ resp'.op = op

ReconcileStep ==
    /\ now' = now
    /\ resp'.op \in {"get_schedule_payouts", "system_alert"}
    /\ resp'.rec.ran

Approved(i) == pensioners[i].status = "approved"

NewPayments == DOMAIN payments' \ DOMAIN payments
NewNotifications == DOMAIN notifications' \ DOMAIN notifications

\* C1: a payment row is inserted with the payout amount its pensioner has
\* at that moment, no later step changes or removes a stored row, and
\* GET /payments-history returns the stored amount of each row.
C1_SnapshotAmount ==
    [][ /\ \A i \in DOMAIN payments : i \in DOMAIN payments' /\ payments'[i] = payments[i]
        /\ \A i \in NewPayments :
              payments'[i].payout_amount = pensioners[payments'[i].pensioner_id].payout_amount
        /\ (Step("get_payments") /\ resp'.code = 200) =>
              \A r \in resp'.body : r.payout_amount = payments[r.id].payout_amount
      ]_vars

\* A read of the history returned a row whose amount is not the pensioner's
\* current amount.
C1_Witness ==
    /\ resp.op = "get_payments" /\ resp.code = 200
    /\ \E r \in resp.body :
          /\ r.payout_amount = payments[r.id].payout_amount
          /\ r.payout_amount # pensioners[payments[r.id].pensioner_id].payout_amount

\* C2: a createSchedule call that answers with a failure leaves no
\* SchedulePayout, PaymentHistory or Notification row behind.
C2_Atomicity ==
    [][ (Step("create_schedule_payout") /\ resp'.code # 201) =>
            /\ resp'.code >= 400
            /\ schedules' = schedules
            /\ payments' = payments
            /\ notifications' = notifications
      ]_vars

\* C3: a createSchedule call that answers 201 adds exactly one payment row
\* of the new schedule and exactly one notification for every pensioner
\* approved when it is called, and no other row.
C3_FanOutComplete ==
    [][ (Step("create_schedule_payout") /\ resp'.code = 201) =>
          LET S == Len(schedules) + 1
              A == { p \in DOMAIN pensioners : Approved(p) }
          IN  /\ DOMAIN schedules' = 1..S
              /\ resp'.body = {[schedule_id |-> S]}
              /\ \A i \in NewPayments : payments'[i].schedule_id = S
              /\ Cardinality(NewPayments) = Cardinality(A)
              /\ Cardinality(NewNotifications) = Cardinality(A)
              /\ \A p \in A :
                    /\ Cardinality({ i \in NewPayments : payments'[i].pensioner_id = p }) = 1
                    /\ Cardinality({ i \in NewNotifications :
                                        notifications'[i].pensioner_id = p }) = 1
      ]_vars

\* A schedule was created for two approved pensioners.
C3_Witness ==
    /\ resp.op = "create_schedule_payout" /\ resp.code = 201
    /\ Cardinality({ p \in DOMAIN pensioners : Approved(p) }) >= 2
    /\ Len(payments) >= 2 /\ Len(notifications) >= 2

\* C4: payment and notification rows appear only in the step that creates
\* their schedule and only for pensioners approved before that step, and a
\* stored row never moves to another pensioner or schedule; so a pensioner
\* approved after a schedule was created never has a row for it.
C4_NoRetroactiveFanOut ==
    [][ /\ \A i \in NewPayments :
              /\ Step("create_schedule_payout")
              /\ payments'[i].schedule_id = Len(schedules) + 1
              /\ Len(schedules') = Len(schedules) + 1
              /\ Approved(payments'[i].pensioner_id)
        /\ \A i \in NewNotifications :
              /\ Step("create_schedule_payout")
              /\ Len(schedules') = Len(schedules) + 1
              /\ notifications'[i].date = schedules'[Len(schedules')].payout_date
              /\ Approved(notifications'[i].pensioner_id)
        /\ \A i \in DOMAIN payments :
              /\ i \in DOMAIN payments'
              /\ payments'[i].pensioner_id = payments[i].pensioner_id
              /\ payments'[i].schedule_id = payments[i].schedule_id
        /\ \A i \in DOMAIN notifications :
              i \in DOMAIN notifications' /\ notifications'[i] = notifications[i]
      ]_vars

\* A pensioner is approved now and has no row of a schedule that fanned out
\* to somebody else.
C4_Witness ==
    \E s \in DOMAIN schedules, p \in DOMAIN pensioners :
        /\ Approved(p) /\ pensioners[p].payout_amount # NULL
        /\ \E i \in DOMAIN payments : payments[i].schedule_id = s
        /\ \A i \in DOMAIN payments : payments[i].pensioner_id # p
        /\ \A i \in DOMAIN notifications : notifications[i].pensioner_id # p

\* C5: every row GET /payments-history returns is 'released' exactly when
\* its schedule's payoutDate is strictly earlier than the time of the read.
C5_DerivedStatus ==
    [][ (Step("get_payments") /\ resp'.code = 200) =>
            \A r \in resp'.body :
                (r.status = "released") <=>
                    (schedules[payments[r.id].schedule_id].payout_date < now)
      ]_vars

\* C6: after a reconciliation pass that met no persistence error, a schedule
\* is released exactly when its payoutDate is earlier than the time of the pass.
C6_ReconciledStatus ==
    [][ (ReconcileStep /\ ~resp'.rec.failed) =>
            \A i \in DOMAIN schedules' :
                (schedules'[i].status = "released") <=> (schedules'[i].payout_date < now)
      ]_vars

\* A pass released a schedule.
C6_Witness ==
    /\ resp.rec.ran /\ ~resp.rec.failed /\ resp.rec.updated # {}
    /\ \A i \in resp.rec.updated : schedules[i].status = "released"

NothingToRelease ==
    \A i \in DOMAIN schedules :
        ~(schedules[i].payout_date < now /\ schedules[i].status = "scheduled")

\* C7 as stated: a pass that finds no schedule with payoutDate < now still
\* scheduled writes nothing and commits nothing.
C7_NoWriteNoCommit ==
    [][ (ReconcileStep /\ NothingToRelease) =>
            /\ schedules' = schedules
            /\ ~resp'.rec.committed
      ]_vars

\* C7 as amended: such a pass changes no row, but it calls commit whenever
\* some schedule has payoutDate < now, released already or not.
C7_NoRowWritten ==
    [][ (ReconcileStep /\ NothingToRelease) =>
            /\ schedules' = schedules
            /\ resp'.rec.updated = {}
            /\ ~resp'.rec.failed =>
                  (resp'.rec.committed <=>
                      \E i \in DOMAIN schedules : schedules[i].payout_date < now)
      ]_vars

\* A pass committed and changed no row.
C7_Witness ==
    /\ resp.rec.ran /\ resp.rec.committed /\ resp.rec.updated = {}
    /\ \A i \in DOMAIN schedules : schedules[i].status = "released"

\* C8: a request on GET /schedule-payout or GET /system-alert that comes with
\* a pensioner's credentials is turned away by the role check before any
\* reconciliation write: it changes no SchedulePayout.status.
C8_RoleCheckFirst ==
    (/\ resp.op \in {"get_schedule_payouts", "system_alert"}
     /\ resp.who = "pensioner"
     /\ resp.code # 403)
        => resp.rec.updated = {}

\* The malformed bodies of the claim: a field missing, a payout_date that is
\* not a YYYY-MM-DD date, a start_time or end_time that is not an HH:MM time.
Malformed(data) ==
    \/ \E f \in DOMAIN data : data[f] = Missing
    \/ data.payout_date \notin { JStr(d) : d \in ValidDates }
    \/ data.start_time # JStr(<<9, 0>>)
    \/ data.end_time # JStr(<<12, 0>>)

\* C9: createSchedule with a malformed body answers 400 and changes no table.
C9_MalformedInput ==
    [][ \A pr \in AdminTokens, data \in ScheduleBodies :
            (Malformed(data) /\ create_schedule_payout(pr, data, "none")) =>
                /\ resp'.code = 400
                /\ schedules' = schedules
                /\ payments' = payments
                /\ notifications' = notifications
      ]_vars

\* C10: a pass that meets a persistence error changes no schedule, and the
\* request that ran it is answered 200 with the rows as persisted.
C10_BestEffort ==
    [][ (ReconcileStep /\ resp'.rec.failed) =>
            /\ resp'.code = 200
            /\ schedules' = schedules
            /\ \A r \in resp'.body : r.status = schedules[r.schedule_id].status
      ]_vars

\* A pass failed and left a due schedule for the next pass.
C10_Witness ==
    /\ resp.rec.ran /\ resp.rec.failed /\ resp.code = 200
    /\ \E i \in DOMAIN schedules :
          schedules[i].payout_date < now /\ schedules[i].status = "scheduled"

ReportStep ==
    /\ now' = now
    /\ resp'.op \in {"get_schedule_payouts", "system_alert"}
    /\ resp'.code = 200

DueAtRequest(r) == schedules'[r.schedule_id].payout_date < now

\* C11 as stated: a response of GET /schedule-payout or GET /system-alert is
\* assembled after a reconciliation pass of the same request, so the first
\* never reports 'scheduled' for a schedule whose payoutDate < now and the
\* second never lists a schedule whose payoutDate < now.
C11_ReconcileBeforeReport ==
    [][ ReportStep =>
            /\ resp'.rec.ran
            /\ \A r \in resp'.body :
                  /\ ~(r.status = "scheduled" /\ DueAtRequest(r))
                  /\ resp'.op = "system_alert" => ~DueAtRequest(r)
      ]_vars

\* C11 as amended: the same when the pass of the request met no persistence
\* error; after a pass that failed, the response reports the due schedules
\* with the status they have persisted.
C11_ReportAfterCleanPass ==
    [][ ReportStep =>
            /\ resp'.rec.ran
            /\ \A r \in resp'.body :
                  /\ r.status = schedules'[r.schedule_id].status
                  /\ ~resp'.rec.failed =>
                        /\ ~(r.status = "scheduled" /\ DueAtRequest(r))
                        /\ resp'.op = "system_alert" => ~DueAtRequest(r)
      ]_vars

\* GET /schedule-payout reported as released a schedule that its own pass
\* released.
C11_Witness ==
    /\ resp.op = "get_schedule_payouts" /\ resp.code = 200
    /\ resp.rec.ran /\ ~resp.rec.failed
    /\ \E r \in resp.body : r.schedule_id \in resp.rec.updated /\ r.status = "released"

ApprovedWithoutAmount ==
    { p \in DOMAIN pensioners : Approved(p) /\ pensioners[p].payout_amount = NULL }

\* C12: createSchedule with a well-formed body, while an approved pensioner
\* has no payout amount, answers 201 with the new schedule id and gives that
\* pensioner exactly one payment row, its amount null or zero.
C12_NullAmountFanOut ==
    [][ \A pr \in AdminTokens, data \in ScheduleBodies :
            (/\ Defects(data) = {}
             /\ ApprovedWithoutAmount # {}
             /\ create_schedule_payout(pr, data, "none")) =>
                /\ resp'.code = 201
                /\ resp'.body = {[schedule_id |-> Len(schedules) + 1]}
                /\ \A p \in ApprovedWithoutAmount :
                      \E i \in NewPayments :
                          /\ payments'[i].pensioner_id = p
                          /\ payments'[i].payout_amount \in {NULL, 0}
                          /\ \A j \in NewPayments :
                                payments'[j].pensioner_id = p => j = i
      ]_vars

\* C13: when createSchedule overlaps status and payout updates, the pensioners
\* that get a payment row and a notification of the new schedule are exactly
\* those approved at the instant the SchedulePayout row was committed, each
\* with the amount it had at that instant; one approved between that commit
\* and the query of the approved pensioners gets no row.
C13_ConsistentSnapshot ==
    [][ \A w \in Workers :
            (w \in Creating("commit") /\ workers'[w] = Idle /\ resp'.code = 201) =>
                LET then == workers[w].approved_then
                IN  /\ { payments'[i].pensioner_id : i \in NewPayments } = DOMAIN then
                    /\ { notifications'[i].pensioner_id : i \in NewNotifications }
                          = DOMAIN then
                    /\ \A i \in NewPayments :
                          payments'[i].payout_amount = then[payments'[i].pensioner_id]
      ]_vars

Lifecycle == {"pending", "approved", "rejected"}

OtherStatusBodies ==
    { data \in StatusBodies : data.status \notin { JStr(<<st>>) : st \in Lifecycle } }

\* C14: a pensioner row comes from a registration, with status pending and no
\* payout amount, and is never removed; every pensioner's status is pending,
\* approved or rejected; update_pensioner_status by an administrator, for a
\* registered pensioner, with a status outside these three answers 400 and
\* changes no row.
C14_Lifecycle ==
    [][ /\ \A i \in DOMAIN pensioners' \ DOMAIN pensioners :
              /\ Step("register_pensioner")
              /\ pensioners'[i].status = "pending"
              /\ pensioners'[i].payout_amount = NULL
        /\ \A i \in DOMAIN pensioners : i \in DOMAIN pensioners'
        /\ \A i \in DOMAIN pensioners' : pensioners'[i].status \in Lifecycle
        /\ (Step("update_pensioner_status") /\ resp'.who = "admin") =>
              \/ resp'.code = 400 /\ pensioners' = pensioners
              \/ \A pr \in AdminTokens, id \in DOMAIN pensioners, data \in OtherStatusBodies :
                    ~update_pensioner_status(pr, id, data)
      ]_vars

\* A status update was answered 400 while the pensioners went through all
\* three statuses.
C14_Witness ==
    /\ resp.op = "update_pensioner_status" /\ resp.code = 400
    /\ \E i, j \in DOMAIN pensioners :
          /\ pensioners[i].status = "rejected" /\ pensioners[i].payout_amount = NULL
          /\ pensioners[j].status = "approved" /\ pensioners[j].payout_amount # NULL

Registered(id) == \E i \in DOMAIN pensioners : pensioners[i].senior_citizen_id = id

\* C15: no two pensioner rows ever share a senior_citizen_id, also when two
\* registrations with the same id have both passed the existence check; a
\* registration whose id is registered already, at its check or at its
\* commit, is answered with an error and adds no row.
C15_UniqueSeniorCitizenId ==
    [][ /\ \A i, j \in DOMAIN pensioners' :
              pensioners'[i].senior_citizen_id = pensioners'[j].senior_citizen_id => i = j
        /\ \A w \in Workers, data \in RegisterBodies :
              (/\ data.senior_citizen_id # Missing
               /\ Registered(data.senior_citizen_id.v[1])
               /\ check_register_pensioner(w, data)) =>
                  resp'.code = 409 /\ pensioners' = pensioners
        /\ \A w \in Registering :
              (workers'[w] = Idle /\ Registered(workers[w].new_pensioner.senior_citizen_id)) =>
                  resp'.code >= 400 /\ pensioners' = pensioners
      ]_vars

\* Of two registrations with the same id that both passed the check, one was
\* committed and the other has just been refused at its commit.
C15_Witness ==
    /\ resp.op = "register_pensioner" /\ resp.code = 500
    /\ Len(pensioners) = 1
    /\ \A w \in Workers : workers[w] = Idle

\* C16: there is at most one payment row for a pensioner and a schedule; every
\* payment row refers to a stored schedule and a stored pensioner; payment
\* rows are inserted by createSchedule alone, and no step removes or changes
\* one.
C16_PaymentHistoryUnique ==
    [][ /\ \A i, j \in DOMAIN payments' :
              (/\ payments'[i].pensioner_id = payments'[j].pensioner_id
               /\ payments'[i].schedule_id = payments'[j].schedule_id) => i = j
        /\ \A i \in DOMAIN payments' :
              /\ payments'[i].schedule_id \in DOMAIN schedules'
              /\ payments'[i].pensioner_id \in DOMAIN pensioners'
        /\ payments' # payments =>
              /\ Step("create_schedule_payout")
              /\ Len(payments') > Len(payments)
              /\ SubSeq(payments', 1, Len(payments)) = payments
      ]_vars

\* The rows of a schedule for two pensioners are in place after a request on
\* another route.
C16_Witness ==
    /\ resp.op \notin {"", "create_schedule_payout"}
    /\ \E i, j \in DOMAIN payments :
          /\ payments[i].pensioner_id # payments[j].pensioner_id
          /\ payments[i].schedule_id = payments[j].schedule_id

\* The bodies of the claim: status approved with a payout_amount that is no
\* number.
UnparseableAmountBodies ==
    { data \in StatusBodies :
        /\ data.status = JStr(<<"approved">>)
        /\ data.payout_amount # Missing
        /\ ~py_float(data.payout_amount).ok }

\* C17: update_pensioner_status with status approved and a payout_amount that
\* cannot be parsed as a number answers 400 and leaves the pensioner's stored
\* status and payout amount as they were, for this request and for the
\* requests that follow it.
C17_NoPartialWrite ==
    [][ Step("update_pensioner_status") =>
            \A pr \in AdminTokens, id \in DOMAIN pensioners,
               data \in UnparseableAmountBodies :
                update_pensioner_status(pr, id, data) =>
                    /\ resp'.code = 400
                    /\ pensioners' = pensioners
      ]_vars

\* C18: a schedule is created with status scheduled; its status changes only
\* from scheduled to released and only in a reconciliation pass; no step
\* removes a schedule or changes its payoutDate; the stored status of every
\* payment row is 'scheduled' at all times.
C18_StatusMonotone ==
    [][ /\ \A i \in DOMAIN schedules' \ DOMAIN schedules :
              /\ Step("create_schedule_payout")
              /\ schedules'[i].status = "scheduled"
        /\ \A i \in DOMAIN schedules :
              /\ i \in DOMAIN schedules'
              /\ schedules'[i].payout_date = schedules[i].payout_date
              /\ schedules'[i].status # schedules[i].status =>
                    /\ schedules[i].status = "scheduled"
                    /\ schedules'[i].status = "released"
                    /\ ReconcileStep
                    /\ i \in resp'.rec.updated
        /\ \A i \in DOMAIN payments' : payments'[i].status = "scheduled"
      ]_vars

\* A schedule is released and a payment row of it is stored as 'scheduled'.
C18_Witness ==
    \E i \in DOMAIN payments :
        /\ schedules[payments[i].schedule_id].status = "released"
        /\ payments[i].status = "scheduled"
=============================================================================
